---- MODULE Spec2Model ----
(***************************************************************************)
(* Client-side synchronisation engine of the grid-bot dashboard.           *)
(*                                                                         *)
(* The repository holds two revisions of the dashboard component:          *)
(*   rev = "A" : src/components/GridTradingBot.tsx                         *)
(*   rev = "B" : src/unnamed/part_000                                      *)
(* Both are modelled; rev is fixed by Init and selects the code that runs. *)
(*                                                                         *)
(* Execution model: JavaScript is single-threaded, so the code between two *)
(* awaits runs atomically.  Every async function in flight is recorded (in  *)
(* initialLoad, polls, ops) at the network call it awaits; one action       *)
(* delivers the outcome of that call and runs the continuation up to the   *)
(* next await or to the end of the function.  `await fetch(..)' and the                  *)
(* `await response.json()' that follows it are delivered together: no      *)
(* component state is read or written between the two.                     *)
(*                                                                         *)
(* React state setters are modelled as assignments: within one             *)
(* continuation the last setter call on a state slot wins.  A state slot   *)
(* READ inside fetchGridStatus is the value captured by the closure of the *)
(* first render (useEffect with [] dependencies), not the current value.   *)
(*                                                                         *)
(* The cleanup of the mount effect clears the interval and does nothing    *)
(* else: the async functions in flight run on, issue the calls that remain *)
(* and call the setters with what they receive.  The state slots of the    *)
(* model hold what the setters were last called with, also after cleanup.  *)
(***************************************************************************)
EXTENDS Integers, Sequences, FiniteSets, TLC

\* ------------------------------------------------------------------ bounds
\* Status polls that may be in flight at once (no call has a timeout).
MaxPolls == 2
\* Operation handlers (createGrid/stopGrid/cancelGrid) that the model lets be
\* in flight at once; the triggers' gating keeps the actual number at 1.
MaxOps == 2
\* Longest open_orders list a snapshot carries in the order-table model.
MaxOrders == 11

VARIABLES
  rev,                 \* which revision's code runs
  mounted,             \* the mount effect has run
  statusInterval,      \* the interval the mount effect armed is running
  balances,            \* useState<Balance | null>        0 = null
  openOrders,          \* useState<Order[]>               a JSON value
  isRunning,           \* useState(false)
  error,               \* useState<string | null>         NullStr = null
  gridStatus,          \* useState<GridStatus | null>     0 = null, else a snapshot id
  operationInProgress, \* useState<string>('')
  isLoading,           \* rev A
  loadingMessage,      \* rev A
  marketInfo,          \* rev A                           0 = null
  currentPrice,        \* rev A                           0 = null
  initialLoad,         \* fetchInitialData: the call it awaits, "done" once it returned
  polls,               \* timer-issued fetchGridStatus calls in flight, oldest first
  ops,                 \* createGrid/stopGrid/cancelGrid calls in flight, oldest first
  currentPage,         \* rev B: useState(1)
  sortConfig,          \* rev B: useState<SortConfig>
  filterSide,          \* rev B: useState<'ALL' | 'BUY' | 'SELL'>('ALL')
  filterStatus,        \* rev B: useState<string>('ALL')
  ev,                  \* history: the continuation that ran in the last step
  afterStop            \* history: a stop has succeeded; since then no create
                       \* began and nothing was reconciled but running data of
                       \* status fetches requested before the stop response

react == <<balances, openOrders, isRunning, error, gridStatus,
           operationInProgress, isLoading, loadingMessage, marketInfo,
           currentPrice>>
\* the state of rev B's order table
view == <<currentPage, sortConfig, filterSide, filterStatus>>
vars == <<rev, mounted, statusInterval, balances, openOrders, isRunning, error, gridStatus,
          operationInProgress, isLoading, loadingMessage, marketInfo,
          currentPrice, initialLoad, polls, ops, currentPage, sortConfig,
          filterSide, filterStatus, ev, afterStop>>

\* ------------------------------------------------------------ JSON values
NullStr == "null"

Arr(items) == [tag |-> "array", items |-> items]
Obj == [tag |-> "object", items |-> <<>>]
Nul == [tag |-> "null", items |-> <<>>]
\* JavaScript truthiness of a JSON value: arrays (even empty) and objects are truthy.
Truthy(j) == j.tag # "null"
IsArray(j) == j.tag = "array"

\* Status snapshots the backend may send (grid_state / grid_status), by id.
\*   1: a well-formed snapshot;  2: no balance, open_orders not a sequence;
\*   3 + n: a snapshot whose open_orders are the orders 1..n (order-table model).
SnapIds == {1, 2}
TableSnapIds == {3 + n : n \in 0..MaxOrders}
snap_balance(g) == IF g = 1 THEN 2 ELSE 0
snap_open_orders(g) ==
  IF g = 1 THEN Arr(<<1, 2>>)
  ELSE IF g = 2 THEN Obj
  ELSE Arr([i \in 1..(g - 3) |-> i])
snap_current_price(g) == 7

\* ------------------------------------------------------- network outcomes
\* net:  "reject" the fetch promise rejects (transport failure)
\*       "notok"  a response with a non-2xx status
\*       "ok"     a response with a 2xx status
\* json: the body parses as JSON;  detail: the body has a `detail' string
NoResp == [net |-> "none", json |-> FALSE, detail |-> FALSE, running |-> FALSE,
           snap |-> 0, orders |-> Nul, price |-> 0]
Reject == [NoResp EXCEPT !.net = "reject"]
NotOk(j, d) == [NoResp EXCEPT !.net = "notok", !.json = j, !.detail = d]
OkBad == [NoResp EXCEPT !.net = "ok"]
Ok == [NoResp EXCEPT !.net = "ok", !.json = TRUE]
OkStatus(r, g) == [Ok EXCEPT !.running = r, !.snap = g]

StatusPayloads == {OkStatus(r, g) : r \in BOOLEAN, g \in {0} \cup SnapIds}
\* Bodies are listed only as far as the receiving code can tell them apart.
BalanceResponses == {Reject, NotOk(FALSE, FALSE), OkBad, Ok}
OrdersResponses ==
  {Reject, NotOk(FALSE, FALSE), OkBad,
   [Ok EXCEPT !.orders = Arr(<<3>>)], [Ok EXCEPT !.orders = Obj]}
MarketInfoResponses ==
  {Reject, NotOk(FALSE, FALSE), NotOk(TRUE, FALSE), NotOk(TRUE, TRUE), OkBad, Ok}
MarketPriceResponses ==
  {Reject, NotOk(FALSE, FALSE), OkBad, Ok, [Ok EXCEPT !.price = 9]}
PollResponses == {Reject, NotOk(FALSE, FALSE), OkBad} \cup StatusPayloads
DetailResponses ==
  {Reject, NotOk(FALSE, FALSE), NotOk(TRUE, FALSE), NotOk(TRUE, TRUE), OkBad}
InitialResponses == DetailResponses \cup StatusPayloads
CreateResponses == DetailResponses \cup StatusPayloads
StopResponses == DetailResponses \cup {Ok}
CancelResponses == {Reject, NotOk(FALSE, FALSE), NotOk(TRUE, TRUE), Ok}

\* ---------------------------------------------------------- error messages
\* message of the TypeError a rejected fetch carries (Chromium's wording)
NetworkMessage == "Failed to fetch"
\* message of the SyntaxError response.json() throws on an unparseable body
SyntaxMessage == "Unexpected token"
\* the `detail' string of a structured backend error
DetailMessage == "detail from backend"
\* message of the error a failed call throws: transport, then parse, then status
Thrown(r, fallback) ==
  IF r.net = "reject" THEN NetworkMessage
  ELSE IF ~r.json THEN SyntaxMessage
  ELSE IF r.detail THEN DetailMessage ELSE fallback
\* error.message.includes('Failed to fetch'), over the messages that occur
includesFailedToFetch(m) ==
  m \in {"Failed to fetch", "Failed to fetch grid status",
         "Failed to fetch balances", "Failed to fetch orders",
         "Failed to fetch market info", "Failed to fetch market price"}

\* ------------------------------------------------------------ React state
State ==
  [balances |-> balances, openOrders |-> openOrders, isRunning |-> isRunning,
   error |-> error, gridStatus |-> gridStatus,
   operationInProgress |-> operationInProgress, isLoading |-> isLoading,
   loadingMessage |-> loadingMessage, marketInfo |-> marketInfo,
   currentPrice |-> currentPrice]

Render(s) ==
  /\ balances' = s.balances
  /\ openOrders' = s.openOrders
  /\ isRunning' = s.isRunning
  /\ error' = s.error
  /\ gridStatus' = s.gridStatus
  /\ operationInProgress' = s.operationInProgress
  /\ isLoading' = s.isLoading
  /\ loadingMessage' = s.loadingMessage
  /\ marketInfo' = s.marketInfo
  /\ currentPrice' = s.currentPrice

\* ------------------------------------------------ captured (stale) values
\* fetchGridStatus is only ever called through the closures of the first
\* render (the mount effect and its setInterval), so the `gridStatus' and
\* `error' it reads are the initial values of those state slots.
closure_gridStatus == 0
closure_error == NullStr
\* error.includes('grid status'), over the messages that occur
includesGridStatus(m) ==
  m \in {"Failed to fetch grid status",
         "Failed to fetch grid status. The connection to the server might be lost."}

\* ------------------------------------------------------- rev A: the reads
fetchBalances_start(s) == [s EXCEPT !.loadingMessage = "Fetching balances..."]
fetchBalances_ok(r) == r.net = "ok" /\ r.json
fetchBalances_then(s, r) == [s EXCEPT !.balances = 1]
\* (mutant) a catch block that also reports the failure
fetchBalances_catch_reports(s) ==
  [s EXCEPT !.balances = 0, !.error = "Failed to fetch balances"]
fetchBalances_catch(s) == [s EXCEPT !.balances = 0]
fetchBalances_settle(s, r) ==
  IF fetchBalances_ok(r) THEN fetchBalances_then(s, r) ELSE fetchBalances_catch(s)

fetchOpenOrders_start(s) == [s EXCEPT !.loadingMessage = "Fetching orders..."]
fetchOpenOrders_ok(r) == r.net = "ok" /\ r.json
fetchOpenOrders_then(s, r) ==
  [s EXCEPT !.openOrders = IF IsArray(r.orders) THEN r.orders ELSE Arr(<<>>)]
\* (mutant) a catch block that leaves the previous orders in place
fetchOpenOrders_catch_keeps(s) == s
fetchOpenOrders_catch(s) == [s EXCEPT !.openOrders = Arr(<<>>)]
fetchOpenOrders_settle(s, r) ==
  IF fetchOpenOrders_ok(r) THEN fetchOpenOrders_then(s, r) ELSE fetchOpenOrders_catch(s)
\* message of the error fetchOpenOrders rethrows to its caller
fetchOpenOrders_thrown(r) ==
  IF r.net = "reject" THEN NetworkMessage
  ELSE IF r.net = "notok" THEN "Failed to fetch orders" ELSE SyntaxMessage

fetchMarketInfo_start(s) == [s EXCEPT !.loadingMessage = "Fetching market info..."]
\* the market-info call: on success the price call is issued next
fetchMarketInfo_ok(r) == r.net = "ok" /\ r.json
fetchMarketInfo_then(s, r) == [s EXCEPT !.marketInfo = 1]
fetchMarketInfo_catch(s, msg) == [s EXCEPT !.error = msg]
fetchMarketInfo_settle(s, r) ==
  IF fetchMarketInfo_ok(r) THEN fetchMarketInfo_then(s, r)
  ELSE fetchMarketInfo_catch(s, Thrown(r, "Failed to fetch market info"))
\* the market-price call
fetchMarketPrice_settle(s, r) ==
  IF r.net = "ok" /\ r.json
  THEN IF r.price # 0 THEN [s EXCEPT !.currentPrice = r.price] ELSE s
  ELSE fetchMarketInfo_catch(s,
         IF r.net = "reject" THEN NetworkMessage
         ELSE IF r.net = "notok" THEN "Failed to fetch market price"
         ELSE SyntaxMessage)

\* the three reads as fetchInitialData calls them, from call to return
fetchBalances_call(s, r) == fetchBalances_settle(fetchBalances_start(s), r)
fetchOpenOrders_call(s, r) == fetchOpenOrders_settle(fetchOpenOrders_start(s), r)
fetchMarketInfo_call(s, r, p) ==
  LET s1 == fetchMarketInfo_settle(fetchMarketInfo_start(s), r)
  IN  IF fetchMarketInfo_ok(r) THEN fetchMarketPrice_settle(s1, p) ELSE s1

\* ------------------------------------------------- status reconciliation
\* (mutant) a reconciler that skips a payload while an operation holds the lock
handleStatusUpdate_A_guarded(s, d) ==
  IF s.operationInProgress # "" THEN s
  ELSE IF d.running /\ d.snap # 0
  THEN [s EXCEPT !.isRunning = TRUE, !.gridStatus = d.snap]
  ELSE [s EXCEPT !.isRunning = FALSE, !.gridStatus = 0]
handleStatusUpdate_A(s, d) ==
  IF d.running /\ d.snap # 0
  THEN [s EXCEPT !.isRunning = TRUE,
                 !.gridStatus = d.snap,
                 !.currentPrice = snap_current_price(d.snap),
                 !.balances = IF snap_balance(d.snap) # 0
                              THEN snap_balance(d.snap) ELSE @,
                 !.openOrders = IF Truthy(snap_open_orders(d.snap))
                                THEN snap_open_orders(d.snap) ELSE @]
  ELSE [s EXCEPT !.isRunning = FALSE, !.gridStatus = 0]

handleStatusUpdate_B(s, d) ==
  IF d.snap # 0
  THEN [s EXCEPT !.isRunning = d.running, !.gridStatus = d.snap]
  ELSE [s EXCEPT !.isRunning = FALSE, !.gridStatus = 0]

\* --------------------------------------------------------- the status poll
fetchGridStatus_A_start(s) ==
  IF closure_gridStatus = 0
  THEN [s EXCEPT !.loadingMessage = "Checking grid status..."] ELSE s
fetchGridStatus_ok(r) == r.net = "ok" /\ r.json
\* message of the error thrown inside fetchGridStatus (the body of a non-2xx
\* response is not read)
fetchGridStatus_thrown(r) ==
  IF r.net = "reject" THEN NetworkMessage
  ELSE IF r.net = "notok" THEN "Failed to fetch grid status" ELSE SyntaxMessage
fetchGridStatus_A_then(s, r) ==
  LET s1 == handleStatusUpdate_A(s, r)
  IN  IF closure_error # NullStr /\ includesGridStatus(closure_error)
      THEN [s1 EXCEPT !.error = NullStr] ELSE s1
fetchGridStatus_A_catch(s, msg) ==
  IF ~includesFailedToFetch(msg)
  THEN [s EXCEPT !.error =
         "Failed to fetch grid status. The connection to the server might be lost."]
  ELSE s
fetchGridStatus_A_settle(s, r) ==
  IF fetchGridStatus_ok(r) THEN fetchGridStatus_A_then(s, r)
  ELSE fetchGridStatus_A_catch(s, fetchGridStatus_thrown(r))

fetchGridStatus_B_settle(s, r) ==
  IF fetchGridStatus_ok(r) THEN handleStatusUpdate_B(s, r)
  ELSE [s EXCEPT !.error = fetchGridStatus_thrown(r)]

\* -------------------------------------------------------- the initial load
fetchInitialData_A_start(s) ==
  fetchBalances_start([s EXCEPT !.isLoading = TRUE,
                                !.loadingMessage = "Loading grid data..."])
\* (mutant) fetchInitialData without its finally block
fetchInitialData_A_finally_missing(s) == s
fetchInitialData_A_finally(s) == [s EXCEPT !.isLoading = FALSE, !.loadingMessage = ""]
\* (mutant) a fetchInitialData whose reads share one try block
fetchInitialData_A_next_abort(read, ok) ==
  IF ~ok THEN "done"
  ELSE CASE read = "balance" -> "orders"
         [] read = "orders" -> "market"
         [] read = "market" -> "price"
         [] read = "price" -> "status"
\* the call fetchInitialData awaits once `read' has settled: each read sits in
\* a try/catch of its own, so a failed read is followed by the same call as a
\* successful one (the price call belongs to fetchMarketInfo and is skipped
\* when the market-info call failed)
fetchInitialData_A_next(read, ok) ==
  CASE read = "balance" -> "orders"
    [] read = "orders" -> "market"
    [] read = "market" -> IF ok THEN "price" ELSE "status"
    [] read = "price" -> "status"

fetchInitialData_B_start(s) == [s EXCEPT !.error = NullStr]
fetchInitialData_B_then(s, r) ==
  LET s1 == handleStatusUpdate_B(s, r)
  IN  IF r.snap # 0
      THEN [s1 EXCEPT !.balances = IF snap_balance(r.snap) # 0
                                   THEN snap_balance(r.snap) ELSE @,
                      !.openOrders = IF Truthy(snap_open_orders(r.snap))
                                     THEN snap_open_orders(r.snap) ELSE @]
      ELSE s1
fetchInitialData_B_settle(s, r) ==
  IF r.net = "ok" /\ r.json THEN fetchInitialData_B_then(s, r)
  ELSE [s EXCEPT !.error = Thrown(r, "Failed to fetch grid status")]

\* --------------------------------------------------- mutating operations
createGrid_begin(s) == [s EXCEPT !.error = NullStr, !.operationInProgress = "create"]
createGrid_ok(r) == r.net = "ok" /\ r.json
createGrid_catch(s, msg) == [s EXCEPT !.error = msg, !.isRunning = FALSE]
\* (mutant) createGrid without its finally block
createGrid_finally_missing(s) == s
createGrid_finally(s) == [s EXCEPT !.operationInProgress = ""]
\* rev A: the response of the create call; on success the order refresh is awaited
createGrid_A_settle(s, r) ==
  IF createGrid_ok(r) THEN fetchOpenOrders_start(handleStatusUpdate_A(s, r))
  ELSE createGrid_finally(createGrid_catch(s, Thrown(r, "Failed to create grid")))
\* rev A: the outcome of the order refresh, to the end of createGrid
createGrid_A_refreshed(s, r) ==
  createGrid_finally(
    IF fetchOpenOrders_ok(r) THEN fetchOpenOrders_then(s, r)
    ELSE createGrid_catch(fetchOpenOrders_catch(s), fetchOpenOrders_thrown(r)))
createGrid_B_settle(s, r) ==
  createGrid_finally(
    IF createGrid_ok(r) THEN handleStatusUpdate_B(s, r)
    ELSE createGrid_catch(s, Thrown(r, "Failed to create grid")))

stopGrid_A_begin(s) == [s EXCEPT !.operationInProgress = "stop"]
stopGrid_B_begin(s) == [s EXCEPT !.operationInProgress = "stop", !.error = NullStr]
\* rev A parses the body before it looks at the status; rev B never reads a 2xx body
stopGrid_A_ok(r) == r.net = "ok" /\ r.json
stopGrid_B_ok(r) == r.net = "ok"
stopGrid_then(s) == [s EXCEPT !.isRunning = FALSE, !.gridStatus = 0]
\* (mutant) a catch block that also gives up the running grid
stopGrid_catch_resets(s, msg) == [s EXCEPT !.error = msg, !.isRunning = FALSE]
\* (mutant) a stopGrid that swallows its failure
stopGrid_catch_silent(s, msg) == s
stopGrid_catch(s, msg) == [s EXCEPT !.error = msg]
\* (mutant) a stopGrid without its finally block
stopGrid_finally_held(s) == s
stopGrid_finally(s) == [s EXCEPT !.operationInProgress = ""]
stopGrid_A_settle(s, r) ==
  IF stopGrid_A_ok(r) THEN fetchOpenOrders_start(stopGrid_then(s))
  ELSE stopGrid_finally(stopGrid_catch(s, Thrown(r, "Failed to stop grid")))
stopGrid_A_refreshed(s, r) ==
  stopGrid_finally(
    IF fetchOpenOrders_ok(r) THEN fetchOpenOrders_then(s, r)
    ELSE stopGrid_catch(fetchOpenOrders_catch(s), fetchOpenOrders_thrown(r)))
stopGrid_B_settle(s, r) ==
  stopGrid_finally(
    IF stopGrid_B_ok(r) THEN stopGrid_then(s)
    ELSE stopGrid_catch(s, Thrown(r, "Failed to stop grid")))

cancelGrid_begin(s) == [s EXCEPT !.operationInProgress = "cancel"]
cancelGrid_ok(r) == r.net = "ok"
cancelGrid_then(s) == [s EXCEPT !.isRunning = FALSE]
cancelGrid_catch(s, msg) == [s EXCEPT !.error = msg]
cancelGrid_finally(s) == [s EXCEPT !.operationInProgress = ""]
cancelGrid_settle(s, r) ==
  IF cancelGrid_ok(r) THEN fetchOpenOrders_start(cancelGrid_then(s))
  ELSE cancelGrid_finally(cancelGrid_catch(s,
         IF r.net = "reject" THEN NetworkMessage ELSE "Failed to cancel grid"))
cancelGrid_refreshed(s, r) ==
  cancelGrid_finally(
    IF fetchOpenOrders_ok(r) THEN fetchOpenOrders_then(s, r)
    ELSE cancelGrid_catch(fetchOpenOrders_catch(s), fetchOpenOrders_thrown(r)))

\* ------------------------------------------------------------ the triggers
\* (mutant) a Create button that ignores isRunning
createGrid_disabled_lockonly == operationInProgress # ""
\* (mutant) a Create button that ignores the lock
createGrid_disabled_nolock == isRunning
\* `disabled' of the Create button (the same expression in both revisions)
createGrid_disabled == isRunning \/ operationInProgress # ""
\* (mutant) a Stop button that is never disabled
stopGrid_disabled_never == FALSE
\* the Stop button is rendered only while isRunning; its `disabled'
stopGrid_disabled == operationInProgress # ""
\* cancelGrid is bound to no trigger in the sources at hand; its trigger is
\* gated as the specification requires of all three operations.
cancelGrid_disabled == operationInProgress # ""
\* rev A draws a full-viewport overlay (fixed inset-0, z-50) over the page while
\* isLoading; the buttons under it cannot be clicked.
overlay == isLoading

\* ------------------------------------------------- rev B: the order table
\* useState(5)
itemsPerPage == 5

\* The fields of the order with id o (interface Order: every field a string).
\* Numeric fields hold decimal strings, among them strings whose numeric and
\* lexical orders differ ("10" before "5") and distinct strings of one value
\* ("5", "5.0").
order_price(o) == <<"10", "5", "8", "5.0", "100", "9.5", "9">>[((o - 1) % 7) + 1]
order_side(o) == IF o % 3 = 0 THEN "SELL" ELSE "BUY"
order_state(o) == IF o % 4 = 0 THEN "PARTIALLY_FILLED" ELSE "NEW"
order_origQty(o) == <<"2", "10", "1.5">>[((o - 1) % 3) + 1]
order_executedQty(o) == <<"0", "0.5">>[((o - 1) % 2) + 1]
SortKeys == {"side", "price", "origQty", "executedQty", "state"}
\* a[sortConfig.key]
Field(o, key) ==
  CASE key = "side" -> order_side(o)
    [] key = "price" -> order_price(o)
    [] key = "origQty" -> order_origQty(o)
    [] key = "executedQty" -> order_executedQty(o)
    [] key = "state" -> order_state(o)

\* parseFloat of the decimal strings above, in tenths
parseFloat(str) ==
  CASE str = "0" -> 0 [] str = "0.5" -> 5 [] str = "1.5" -> 15
    [] str = "2" -> 20 [] str = "5" -> 50 [] str = "5.0" -> 50
    [] str = "8" -> 80 [] str = "9" -> 90 [] str = "9.5" -> 95
    [] str = "10" -> 100
    [] str = "100" -> 1000
\* the strings that occur, in collation order
Collation ==
  <<"0", "0.5", "1.5", "10", "100", "2", "5", "5.0", "8", "9", "9.5",
    "BUY", "NEW", "PARTIALLY_FILLED", "SELL">>
\* a.localeCompare(b): negative, zero or positive
localeCompare(a, b) ==
  (CHOOSE i \in DOMAIN Collation : Collation[i] = a)
  - (CHOOSE i \in DOMAIN Collation : Collation[i] = b)

\* (mutant) a comparator that ignores the direction
compareOrders_ascending(a, b, cfg) ==
  IF cfg.key \in {"price", "origQty", "executedQty"}
  THEN parseFloat(Field(a, cfg.key)) - parseFloat(Field(b, cfg.key))
  ELSE localeCompare(Field(a, cfg.key), Field(b, cfg.key))
\* (mutant) a comparator that compares every field as text
compareOrders_text(a, b, cfg) ==
  IF cfg.direction = "asc"
  THEN localeCompare(Field(a, cfg.key), Field(b, cfg.key))
  ELSE localeCompare(Field(b, cfg.key), Field(a, cfg.key))
\* the comparator handed to sort(); every field of an Order is a string, so
\* the `typeof' test passes
compareOrders(a, b, cfg) ==
  LET aValue == Field(a, cfg.key)
      bValue == Field(b, cfg.key)
  IN  IF cfg.key \in {"price", "origQty", "executedQty"}
      THEN IF cfg.direction = "asc"
           THEN parseFloat(aValue) - parseFloat(bValue)
           ELSE parseFloat(bValue) - parseFloat(aValue)
      ELSE IF cfg.direction = "asc"
           THEN localeCompare(aValue, bValue)
           ELSE localeCompare(bValue, aValue)

\* (mutant) an insertion that puts x before the elements it ties with
RECURSIVE InsertSorted_before(_, _, _)
InsertSorted_before(sorted, x, cfg) ==
  IF sorted = <<>> THEN <<x>>
  ELSE IF compareOrders(Head(sorted), x, cfg) >= 0 THEN <<x>> \o sorted
  ELSE <<Head(sorted)>> \o InsertSorted_before(Tail(sorted), x, cfg)
\* Array.prototype.sort with a comparator: a stable sort (ES2019)
RECURSIVE InsertSorted(_, _, _)
InsertSorted(sorted, x, cfg) ==
  IF sorted = <<>> THEN <<x>>
  ELSE IF compareOrders(Head(sorted), x, cfg) > 0 THEN <<x>> \o sorted
  ELSE <<Head(sorted)>> \o InsertSorted(Tail(sorted), x, cfg)
RECURSIVE ArraySort(_, _)
ArraySort(arr, cfg) ==
  IF arr = <<>> THEN <<>>
  ELSE InsertSorted(ArraySort(SubSeq(arr, 1, Len(arr) - 1), cfg), arr[Len(arr)], cfg)
\* Array.prototype.slice(start, end) with 0 <= start <= end
ArraySlice(arr, start, end) ==
  IF start >= Len(arr) THEN <<>>
  ELSE SubSeq(arr, start + 1, IF end < Len(arr) THEN end ELSE Len(arr))

FilterBySide(orders) ==
  IF filterSide # "ALL"
  THEN SelectSeq(orders, LAMBDA o : order_side(o) = filterSide) ELSE orders
FilterByStatus(orders) ==
  IF filterStatus # "ALL"
  THEN SelectSeq(orders, LAMBDA o : order_state(o) = filterStatus) ELSE orders
sortAndFilterOrders(orders) ==
  ArraySort(FilterByStatus(FilterBySide(orders)), sortConfig)

\* (mutant) a handleSort that always sorts ascending
handleSort_direction_asc(current, key) == "asc"
\* the direction handleSort(key) sets
handleSort_direction(current, key) ==
  IF current.key = key /\ current.direction = "asc" THEN "desc" ELSE "asc"

\* (mutant) a page count that is never below one
totalPages_one ==
  IF Len(openOrders.items) = 0 THEN 1
  ELSE (Len(openOrders.items) + itemsPerPage - 1) \div itemsPerPage
\* Math.ceil((openOrders?.length || 0) / itemsPerPage)
totalPages == (Len(openOrders.items) + itemsPerPage - 1) \div itemsPerPage
paginatedOrders ==
  ArraySlice(sortAndFilterOrders(openOrders.items),
             (currentPage - 1) * itemsPerPage, currentPage * itemsPerPage)
\* the Previous / Next buttons are rendered with the table (some order is
\* open) and only when there is more than one page
pagination_visible == Len(openOrders.items) # 0 /\ totalPages > 1
previous_disabled == currentPage = 1
next_disabled == currentPage = totalPages
\* Math.max(1, p - 1), Math.min(totalPages, p + 1)
previousPage(pg) == IF pg - 1 > 1 THEN pg - 1 ELSE 1
nextPage(pg) == IF pg + 1 < totalPages THEN pg + 1 ELSE totalPages
\* (mutant) a filter effect that leaves the page where it is
resetPage_keeps(pg) == pg
\* useEffect(() => setCurrentPage(1), [filterSide, filterStatus])
resetPage(pg) == 1
\* The values a filter can take.  No control in the sources at hand sets the
\* filters; a change of filter is modelled as the specification describes it.
SideFilters == {"ALL", "BUY", "SELL"}
StatusFilters == {"ALL", "NEW", "PARTIALLY_FILLED"}

\* ------------------------------------------------------------------ tasks
\* An operation in flight: the call it awaits ("create", "stop", "cancel", or
\* "orders" for the order refresh) and the body of the create response (the
\* local `data' of createGrid).
Op(k, st, d) == [kind |-> k, stage |-> st, data |-> d]
OpKinds == {"createGrid", "stopGrid", "cancelGrid"}
RemoveAt(seq, i) == SubSeq(seq, 1, i - 1) \o SubSeq(seq, i + 1, Len(seq))
\* fn: the call that settled ("begin", "mount", "tick" for a handler's start);
\* kind: the async function it belongs to; done: that function returned in
\* this step; data: the create response in scope when createGrid returned;
\* older: for the successful response of a timer poll, how many polls issued
\* before it were still in flight when it was applied
Event(fn, kind, r, done, d) ==
  [fn |-> fn, kind |-> kind, resp |-> r, done |-> done, data |-> d, older |-> 0]
\* A status fetch is stale once a stop response has overtaken it.  polls[j] and
\* initialLoad.stale record that; they are history, kept only while afterStop.
History(as, il, ps) ==
  /\ afterStop' = as
  /\ initialLoad' = IF as THEN il ELSE [il EXCEPT !.stale = FALSE]
  /\ polls' = IF as THEN ps ELSE [j \in DOMAIN ps |-> FALSE]
AllStale(ps) == [j \in DOMAIN ps |-> TRUE]
\* a reconciled response other than running data of a stale status fetch
Fresh(stale, r) == r.net = "ok" /\ r.json /\ ~(stale /\ r.running /\ r.snap # 0)

\* ------------------------------------------------------------------- Init
Init ==
  /\ rev \in {"A", "B"}
  /\ mounted = FALSE
  /\ statusInterval = FALSE
  /\ balances = 0
  /\ openOrders = Arr(<<>>)
  /\ isRunning = FALSE
  /\ error = NullStr
  /\ gridStatus = 0
  /\ operationInProgress = ""
  /\ isLoading = FALSE
  /\ loadingMessage = ""
  /\ marketInfo = 0
  /\ currentPrice = 0
  /\ initialLoad = [stage |-> "none", stale |-> FALSE]
  /\ polls = <<>>
  /\ ops = <<>>
  /\ currentPage = 1
  /\ sortConfig = [key |-> "price", direction |-> "desc"]
  /\ filterSide = "ALL"
  /\ filterStatus = "ALL"
  /\ ev = Event("init", "none", NoResp, FALSE, NoResp)
  /\ afterStop = FALSE

\* ------------------------------------------------- mount effect and timer
\* the cleanup has run: the component is gone from the page, and with it the
\* buttons that start operations
unmounted == mounted /\ ~statusInterval
\* (mutant) a mount effect that arms the interval and loads nothing
Mount_lazy ==
  /\ ~mounted
  /\ mounted' = TRUE
  /\ statusInterval' = TRUE
  /\ ev' = Event("mount", "fetchInitialData", NoResp, FALSE, NoResp)
  /\ UNCHANGED <<rev, view, react, initialLoad, polls, ops, afterStop>>
\* useEffect(.., []): the initial load starts and the interval is armed.
Mount ==
  /\ ~mounted
  /\ mounted' = TRUE
  /\ statusInterval' = TRUE
  /\ Render(IF rev = "A" THEN fetchInitialData_A_start(State)
            ELSE fetchInitialData_B_start(State))
  /\ initialLoad' = [initialLoad EXCEPT !.stage = IF rev = "A" THEN "balance" ELSE "status"]
  /\ ev' = Event("mount", "fetchInitialData", NoResp, FALSE, NoResp)
  /\ UNCHANGED <<rev, view, polls, ops, afterStop>>

\* (mutant) a timer that stops polling once an error is on display
Tick_untilError ==
  /\ statusInterval
  /\ error = NullStr
  /\ Len(polls) < MaxPolls
  /\ Render(IF rev = "A" THEN fetchGridStatus_A_start(State) ELSE State)
  /\ polls' = Append(polls, FALSE)
  /\ ev' = Event("tick", "fetchGridStatus", NoResp, FALSE, NoResp)
  /\ UNCHANGED <<rev, view, mounted, statusInterval, initialLoad, ops, afterStop>>
\* One firing of setInterval(fetchGridStatus, 30 * 1000).
Tick ==
  /\ statusInterval
  /\ Len(polls) < MaxPolls
  /\ Render(IF rev = "A" THEN fetchGridStatus_A_start(State) ELSE State)
  /\ polls' = Append(polls, FALSE)
  /\ ev' = Event("tick", "fetchGridStatus", NoResp, FALSE, NoResp)
  /\ UNCHANGED <<rev, view, mounted, statusInterval, initialLoad, ops, afterStop>>

\* The cleanup of the mount effect, run when the component is torn down:
\* clearInterval(statusInterval).
Unmount ==
  /\ statusInterval
  /\ statusInterval' = FALSE
  /\ ev' = Event("cleanup", "useEffect", NoResp, FALSE, NoResp)
  /\ UNCHANGED <<rev, view, mounted, react, initialLoad, polls, ops, afterStop>>

\* --------------------------------------------- initial load, rev A's reads
SettleBalances ==
  \E r \in BalanceResponses :
    /\ initialLoad.stage = "balance"
    /\ Render(fetchOpenOrders_start(fetchBalances_settle(State, r)))
    /\ initialLoad' = [initialLoad EXCEPT
                         !.stage = fetchInitialData_A_next("balance", fetchBalances_ok(r))]
    /\ ev' = Event("balance", "fetchInitialData", r, FALSE, NoResp)
    /\ UNCHANGED <<rev, view, mounted, statusInterval, polls, ops, afterStop>>

SettleInitialOrders ==
  \E r \in OrdersResponses :
    /\ initialLoad.stage = "orders"
    /\ Render(fetchMarketInfo_start(fetchOpenOrders_settle(State, r)))
    /\ initialLoad' = [initialLoad EXCEPT
                         !.stage = fetchInitialData_A_next("orders", fetchOpenOrders_ok(r))]
    /\ ev' = Event("orders", "fetchInitialData", r, FALSE, NoResp)
    /\ UNCHANGED <<rev, view, mounted, statusInterval, polls, ops, afterStop>>

SettleMarketInfo ==
  \E r \in MarketInfoResponses :
    /\ initialLoad.stage = "market"
    /\ Render(IF fetchMarketInfo_ok(r) THEN fetchMarketInfo_settle(State, r)
              ELSE fetchGridStatus_A_start(fetchMarketInfo_settle(State, r)))
    /\ initialLoad' = [initialLoad EXCEPT
                         !.stage = fetchInitialData_A_next("market", fetchMarketInfo_ok(r))]
    /\ ev' = Event("market", "fetchInitialData", r, FALSE, NoResp)
    /\ UNCHANGED <<rev, view, mounted, statusInterval, polls, ops, afterStop>>

SettleMarketPrice ==
  \E r \in MarketPriceResponses :
    /\ initialLoad.stage = "price"
    /\ Render(fetchGridStatus_A_start(fetchMarketPrice_settle(State, r)))
    /\ initialLoad' = [initialLoad EXCEPT
                         !.stage = fetchInitialData_A_next("price", r.net = "ok" /\ r.json)]
    /\ ev' = Event("price", "fetchInitialData", r, FALSE, NoResp)
    /\ UNCHANGED <<rev, view, mounted, statusInterval, polls, ops, afterStop>>

\* ------------------------------------------------------- status responses
\* The status call that ends the initial load.
InitialStatusSettles(r) ==
    /\ initialLoad.stage = "status"
    /\ Render(IF rev = "A"
              THEN fetchInitialData_A_finally(fetchGridStatus_A_settle(State, r))
              ELSE fetchInitialData_B_settle(State, r))
    /\ History(afterStop /\ ~Fresh(initialLoad.stale, r),
               [initialLoad EXCEPT !.stage = "done"], polls)
    /\ ev' = Event("status", "fetchInitialData", r, TRUE, NoResp)
    /\ UNCHANGED <<rev, view, mounted, statusInterval, ops>>
SettleInitialStatus ==
  \E r \in IF rev = "A" THEN PollResponses ELSE InitialResponses :
    InitialStatusSettles(r)

\* The response of a status poll the timer issued.
SettlePoll ==
  \E i \in DOMAIN polls, r \in PollResponses :
    /\ Render(IF rev = "A" THEN fetchGridStatus_A_settle(State, r)
              ELSE fetchGridStatus_B_settle(State, r))
    /\ History(afterStop /\ ~Fresh(polls[i], r), initialLoad, RemoveAt(polls, i))
    /\ ev' = [Event("status", "fetchGridStatus", r, TRUE, NoResp)
                EXCEPT !.older = IF fetchGridStatus_ok(r) THEN i - 1 ELSE 0]
    /\ UNCHANGED <<rev, view, mounted, statusInterval, ops>>

\* ------------------------------------------------------------- operations
ClickCreate ==
  /\ mounted /\ ~unmounted
  /\ ~overlay
  /\ ~createGrid_disabled
  /\ Len(ops) < MaxOps
  /\ Render(createGrid_begin(State))
  /\ ops' = Append(ops, Op("createGrid", "create", NoResp))
  /\ History(FALSE, initialLoad, polls)
  /\ ev' = Event("begin", "createGrid", NoResp, FALSE, NoResp)
  /\ UNCHANGED <<rev, view, mounted, statusInterval>>

ClickStop ==
  /\ mounted /\ ~unmounted
  /\ ~overlay
  /\ isRunning
  /\ ~stopGrid_disabled
  /\ Len(ops) < MaxOps
  /\ Render(IF rev = "A" THEN stopGrid_A_begin(State) ELSE stopGrid_B_begin(State))
  /\ ops' = Append(ops, Op("stopGrid", "stop", NoResp))
  /\ ev' = Event("begin", "stopGrid", NoResp, FALSE, NoResp)
  /\ UNCHANGED <<rev, view, mounted, statusInterval, initialLoad, polls, afterStop>>

CallCancel ==
  /\ mounted /\ ~unmounted
  /\ ~overlay
  /\ rev = "A"
  /\ ~cancelGrid_disabled
  /\ Len(ops) < MaxOps
  /\ Render(cancelGrid_begin(State))
  /\ ops' = Append(ops, Op("cancelGrid", "cancel", NoResp))
  /\ ev' = Event("begin", "cancelGrid", NoResp, FALSE, NoResp)
  /\ UNCHANGED <<rev, view, mounted, statusInterval, initialLoad, polls, afterStop>>

SettleCreate ==
  \E i \in DOMAIN ops, r \in CreateResponses :
    /\ ops[i].kind = "createGrid" /\ ops[i].stage = "create"
    /\ IF rev = "A"
       THEN /\ Render(createGrid_A_settle(State, r))
            /\ ops' = IF createGrid_ok(r)
                      THEN [ops EXCEPT ![i] = Op("createGrid", "orders", r)]
                      ELSE RemoveAt(ops, i)
            /\ ev' = Event("create", "createGrid", r, ~createGrid_ok(r), r)
       ELSE /\ Render(createGrid_B_settle(State, r))
            /\ ops' = RemoveAt(ops, i)
            /\ ev' = Event("create", "createGrid", r, TRUE, r)
    /\ History(afterStop /\ ~Fresh(FALSE, r), initialLoad, polls)
    /\ UNCHANGED <<rev, view, mounted, statusInterval>>

SettleStop ==
  \E i \in DOMAIN ops, r \in StopResponses :
    /\ ops[i].kind = "stopGrid" /\ ops[i].stage = "stop"
    /\ IF rev = "A"
       THEN /\ Render(stopGrid_A_settle(State, r))
            /\ ops' = IF stopGrid_A_ok(r)
                      THEN [ops EXCEPT ![i].stage = "orders"]
                      ELSE RemoveAt(ops, i)
            /\ ev' = Event("stop", "stopGrid", r, ~stopGrid_A_ok(r), NoResp)
       ELSE /\ Render(stopGrid_B_settle(State, r))
            /\ ops' = RemoveAt(ops, i)
            /\ ev' = Event("stop", "stopGrid", r, TRUE, NoResp)
    /\ IF (rev = "A" /\ stopGrid_A_ok(r)) \/ (rev = "B" /\ stopGrid_B_ok(r))
       THEN History(TRUE, [initialLoad EXCEPT !.stale = @ \/ initialLoad.stage # "done"],
                    AllStale(polls))
       ELSE UNCHANGED <<afterStop, initialLoad, polls>>
    /\ UNCHANGED <<rev, view, mounted, statusInterval>>

SettleCancel ==
  \E i \in DOMAIN ops, r \in CancelResponses :
    /\ ops[i].kind = "cancelGrid" /\ ops[i].stage = "cancel"
    /\ Render(cancelGrid_settle(State, r))
    /\ ops' = IF cancelGrid_ok(r)
              THEN [ops EXCEPT ![i].stage = "orders"]
              ELSE RemoveAt(ops, i)
    /\ ev' = Event("cancel", "cancelGrid", r, ~cancelGrid_ok(r), NoResp)
    /\ UNCHANGED <<rev, view, mounted, statusInterval, initialLoad, polls, afterStop>>

\* The order refresh that follows a successful create, stop or cancel (rev A).
SettleRefresh ==
  \E i \in DOMAIN ops, r \in OrdersResponses :
    /\ ops[i].stage = "orders"
    /\ Render(CASE ops[i].kind = "createGrid" -> createGrid_A_refreshed(State, r)
                [] ops[i].kind = "stopGrid" -> stopGrid_A_refreshed(State, r)
                [] ops[i].kind = "cancelGrid" -> cancelGrid_refreshed(State, r))
    /\ ops' = RemoveAt(ops, i)
    /\ ev' = Event("orders", ops[i].kind, r, TRUE, ops[i].data)
    /\ UNCHANGED <<rev, view, mounted, statusInterval, initialLoad, polls, afterStop>>

Next ==
  \/ Mount
  \/ Tick
  \/ Unmount
  \/ SettleBalances
  \/ SettleInitialOrders
  \/ SettleMarketInfo
  \/ SettleMarketPrice
  \/ SettleInitialStatus
  \/ SettlePoll
  \/ ClickCreate
  \/ ClickStop
  \/ CallCancel
  \/ SettleCreate
  \/ SettleStop
  \/ SettleCancel
  \/ SettleRefresh

Spec == Init /\ [][Next]_vars
\* Every network call an operation issued settles: fetch resolves or rejects.
OperationCallsSettle ==
  /\ WF_vars(SettleCreate)
  /\ WF_vars(SettleStop)
  /\ WF_vars(SettleCancel)
  /\ WF_vars(SettleRefresh)
\* A firing of the timer when the poll of the previous firing has been
\* answered (answers arrive within the 30 s period).
TickAnswered == Len(polls) = 0 /\ Tick
NextLive ==
  \/ Mount
  \/ TickAnswered
  \/ SettleBalances
  \/ SettleInitialOrders
  \/ SettleMarketInfo
  \/ SettleMarketPrice
  \/ SettleInitialStatus
  \/ SettlePoll
  \/ ClickCreate
  \/ ClickStop
  \/ CallCancel
  \/ SettleCreate
  \/ SettleStop
  \/ SettleCancel
  \/ SettleRefresh
SpecLive == Init /\ [][NextLive]_vars /\ OperationCallsSettle

\* ------------------------------------------------- rev B: the order table
\* The status call of the initial load answers with a running grid whose
\* snapshot carries the orders 1..n.
TableResponses == {OkStatus(TRUE, g) : g \in TableSnapIds}
SettleTableStatus ==
  \E r \in TableResponses :
    /\ rev = "B"
    /\ InitialStatusSettles(r)
\* the table, with its sortable headers, is rendered when some order is open
table_visible == mounted /\ ~unmounted /\ Len(openOrders.items) # 0
\* a step of the table: fn names the handler, kind its argument
ViewEvent(fn, arg) == Event(fn, arg, NoResp, FALSE, NoResp)
\* A click on a column header: handleSort(key).
HandleSort ==
  \E key \in SortKeys :
    /\ rev = "B"
    /\ table_visible
    /\ sortConfig' = [key |-> key, direction |-> handleSort_direction(sortConfig, key)]
    /\ ev' = ViewEvent("handleSort", key)
    /\ UNCHANGED <<rev, mounted, statusInterval, react, initialLoad, polls, ops,
                   currentPage, filterSide, filterStatus, afterStop>>
ClickPrevious ==
  /\ rev = "B"
  /\ table_visible /\ pagination_visible
  /\ ~previous_disabled
  /\ currentPage' = previousPage(currentPage)
  /\ ev' = ViewEvent("previous", "page")
  /\ UNCHANGED <<rev, mounted, statusInterval, react, initialLoad, polls, ops,
                 sortConfig, filterSide, filterStatus, afterStop>>
ClickNext ==
  /\ rev = "B"
  /\ table_visible /\ pagination_visible
  /\ ~next_disabled
  /\ currentPage' = nextPage(currentPage)
  /\ ev' = ViewEvent("next", "page")
  /\ UNCHANGED <<rev, mounted, statusInterval, react, initialLoad, polls, ops,
                 sortConfig, filterSide, filterStatus, afterStop>>
\* A filter takes another value; the effect on [filterSide, filterStatus]
\* then runs.
ChangeFilter ==
  \E fs \in SideFilters, ft \in StatusFilters :
    /\ rev = "B"
    /\ mounted /\ ~unmounted
    /\ <<fs, ft>> # <<filterSide, filterStatus>>
    /\ fs = filterSide \/ ft = filterStatus
    /\ filterSide' = fs
    /\ filterStatus' = ft
    /\ currentPage' = resetPage(currentPage)
    /\ ev' = ViewEvent("filter", IF fs # filterSide THEN "side" ELSE "status")
    /\ UNCHANGED <<rev, mounted, statusInterval, react, initialLoad, polls, ops,
                   sortConfig, afterStop>>

NextView ==
  \/ Mount
  \/ SettleTableStatus
  \/ HandleSort
  \/ ClickPrevious
  \/ ClickNext
  \/ ChangeFilter

InitView == Init /\ rev = "B"
SpecView == InitView /\ [][NextView]_vars

\* ================================================================ claims
\* value of operationInProgress that an operation sets
LockName(k) ==
  CASE k = "createGrid" -> "create"
    [] k = "stopGrid" -> "stop"
    [] k = "cancelGrid" -> "cancel"

\* C1: in every reachable state at most one mutating operation is in flight,
\* operationInProgress is '' exactly when none is in flight (and names the one
\* that is), and the Create and Stop triggers are enabled only while it is ''.
\* An operation is in flight from its first statement to its return, which in
\* rev A includes the order refresh it awaits after its mutating call.
C1_OneOperationInFlight ==
  /\ Len(ops) <= 1
  /\ (operationInProgress = "") <=> (ops = <<>>)
  /\ \A i \in DOMAIN ops : operationInProgress = LockName(ops[i].kind)
  /\ ~createGrid_disabled => operationInProgress = ""
  /\ (isRunning /\ ~stopGrid_disabled) => operationInProgress = ""
\* the lock is held through the order refresh while a status poll is in flight
\* and the Stop button is on screen
C1_Witness ==
  /\ Len(ops) = 1 /\ ops[1].stage = "orders" /\ ops[1].kind = "createGrid"
  /\ polls # <<>> /\ isRunning

\* C2: while an operation is in flight no further operation begins (no step
\* adds a handler to those in flight) and operationInProgress keeps its value
\* until that operation returns; e.g. with createGrid in flight, stopGrid,
\* cancelGrid and createGrid do not start and the lock stays 'create'.
C2_BeginOnlyFromIdle ==
  [][ops # <<>> =>
       /\ Len(ops') <= Len(ops)
       /\ (ops' # <<>> => operationInProgress' = operationInProgress)]_vars
\* createGrid in flight while the Stop button is on screen (a poll reported
\* running in the meantime)
C2_Witness ==
  /\ Len(ops) = 1 /\ ops[1].kind = "createGrid" /\ ops[1].stage = "create"
  /\ isRunning /\ operationInProgress = "create" /\ ~overlay

\* C3: an operation has set operationInProgress to its own name when its
\* network call is issued, and operationInProgress is '' when the operation
\* returns, on every exit path (success, non-2xx, transport failure,
\* unparseable body, failed order refresh).
C3_LockSetAndReleased ==
  /\ (ev.fn = "begin" /\ ev.kind \in OpKinds) => operationInProgress = LockName(ev.kind)
  /\ (ev.done /\ ev.kind \in OpKinds) => operationInProgress = ""
\* createGrid returned through the failure of its order refresh
C3_Witness ==
  /\ ev.kind = "createGrid" /\ ev.fn = "orders" /\ ev.done
  /\ ev.resp.net = "reject" /\ operationInProgress = ""

\* a status payload was reconciled (handleStatusUpdate ran) in the last step
Reconciled == ev.fn \in {"status", "create"} /\ ev.resp.net = "ok" /\ ev.resp.json

\* C4: reconciling a status payload whose is_running flag is false leaves
\* gridStatus absent and isRunning false, whether or not the payload carries a
\* snapshot.
C4_NotRunningClears ==
  (Reconciled /\ ~ev.resp.running) => (gridStatus = 0 /\ ~isRunning)

\* C5: in every reachable state gridStatus is present only if isRunning is true.
C5_StatusOnlyWhileRunning == gridStatus # 0 => isRunning

\* C6: once stopGrid has succeeded the state is isRunning = false with
\* gridStatus absent, also after the responses of status fetches that were
\* requested before the stop response arrived have been delivered.
C6_StopSurvivesStalePoll == afterStop => (~isRunning /\ gridStatus = 0)

\* C7: a createGrid whose response is a success reporting running with a
\* snapshot returns with isRunning = true, gridStatus = that snapshot and
\* operationInProgress = ''.
C7_CreateEndsRunning ==
  (/\ ev.kind = "createGrid" /\ ev.done
   /\ ev.data.net = "ok" /\ ev.data.json /\ ev.data.running /\ ev.data.snap # 0)
  => (isRunning /\ gridStatus = ev.data.snap /\ operationInProgress = "")

\* C8: no response of a timer-issued status poll is reconciled while
\* operationInProgress is not ''.
C8_NoReconcileWhileLocked ==
  (ev.kind = "fetchGridStatus" /\ Reconciled) => operationInProgress = ""

\* C9: openOrders is a sequence in every reachable state.
C9_OpenOrdersIsSequence == IsArray(openOrders)

Embeds(g) == snap_balance(g) # 0 /\ Truthy(snap_open_orders(g))

\* C11: reconciling a status payload that reports running and carries a
\* snapshot (with its embedded balance and open orders) leaves isRunning true,
\* gridStatus that snapshot, balances the snapshot's balance and openOrders the
\* snapshot's open_orders; for the initial load, timer polls and create
\* responses alike.
C11_RunningAdoptsSnapshot ==
  (Reconciled /\ ev.resp.running /\ ev.resp.snap # 0 /\ Embeds(ev.resp.snap))
  => /\ isRunning
     /\ gridStatus = ev.resp.snap
     /\ balances = snap_balance(ev.resp.snap)
     /\ openOrders = snap_open_orders(ev.resp.snap)

\* C12: in the initial load a read that fails does not stop the load: after
\* the balance read settles the orders read is issued, after that the market
\* read, after that the status read, whatever failed before; and every read
\* that succeeds is applied (balances, openOrders, marketInfo, currentPrice,
\* the reconciled status).  part_000 issues the status read only.
C12_InitialReadsIsolated ==
  [][ev'.kind = "fetchInitialData" =>
       /\ ev'.fn = "balance" =>
            /\ initialLoad'.stage = "orders"
            /\ fetchBalances_ok(ev'.resp) => balances' = 1
       /\ ev'.fn = "orders" =>
            /\ initialLoad'.stage = "market"
            /\ fetchOpenOrders_ok(ev'.resp) =>
                 openOrders' = IF IsArray(ev'.resp.orders)
                               THEN ev'.resp.orders ELSE Arr(<<>>)
       /\ ev'.fn = "market" =>
            /\ initialLoad'.stage \in {"price", "status"}
            /\ fetchMarketInfo_ok(ev'.resp) => marketInfo' = 1
       /\ ev'.fn = "price" =>
            /\ initialLoad'.stage = "status"
            /\ (ev'.resp.net = "ok" /\ ev'.resp.json /\ ev'.resp.price # 0)
                 => currentPrice' = ev'.resp.price
       /\ (ev'.fn = "status" /\ ev'.resp.net = "ok" /\ ev'.resp.json) =>
            /\ initialLoad'.stage = "done"
            /\ (ev'.resp.running /\ ev'.resp.snap # 0)
                 => (isRunning' /\ gridStatus' = ev'.resp.snap)
            /\ ev'.resp.snap = 0 => (~isRunning' /\ gridStatus' = 0)]_vars
\* the balance and the market reads failed, the orders read in between was
\* applied, and the status read that followed was reconciled
C12_Witness ==
  /\ rev = "A" /\ ev.kind = "fetchInitialData" /\ ev.fn = "status"
  /\ ev.resp.running /\ ev.resp.snap = 2
  /\ balances = 0 /\ marketInfo = 0 /\ isRunning /\ gridStatus = 2

\* C13: fetchInitialData returns normally whatever its reads did: the step
\* that delivers the outcome of its last call (the status read) is the step in
\* which it returns, and it returns with isLoading = false and loadingMessage
\* empty.
C13_InitialLoadCompletes ==
  (ev.kind = "fetchInitialData" /\ ev.fn = "status")
  => /\ ev.done /\ initialLoad.stage = "done"
     /\ ~isLoading /\ loadingMessage = ""
\* every read of rev A's initial load failed (the balance read left null, the
\* market read left its message, the status read was rejected)
C13_Witness ==
  /\ rev = "A" /\ ev.kind = "fetchInitialData" /\ ev.fn = "status" /\ ev.done
  /\ ev.resp.net = "reject" /\ balances = 0 /\ openOrders = Arr(<<>>)
  /\ marketInfo = 0 /\ error = "Failed to fetch market info"
  /\ ~isLoading /\ loadingMessage = ""

\* C14: a timer poll that fails changes the displayed error only if its
\* failure is a non-2xx response (an application error); a rejected fetch
\* (transport failure) and an unparseable body leave error as it was.
C14_PollFailureSwallowed ==
  [][(/\ ev'.kind = "fetchGridStatus" /\ ev'.fn = "status"
      /\ ~fetchGridStatus_ok(ev'.resp) /\ error' # error)
     => ev'.resp.net = "notok"]_vars

\* the mutating call of an operation failed: no response, a non-2xx response,
\* or a 2xx response whose body the handler reads and cannot parse (stopGrid
\* of part_000 and cancelGrid do not read the body of a 2xx response)
OperationFailed ==
  /\ ev.kind \in OpKinds /\ ev.fn \in {"create", "stop", "cancel"}
  /\ \/ ev.resp.net \in {"reject", "notok"}
     \/ /\ ev.resp.net = "ok" /\ ~ev.resp.json
        /\ ~(rev = "B" /\ ev.kind = "stopGrid") /\ ev.kind # "cancelGrid"

\* C15: an operation whose mutating call fails returns in that step with a
\* non-null error message and with operationInProgress = ''.
C15_OperationFailureShown ==
  OperationFailed => (ev.done /\ error # NullStr /\ operationInProgress = "")
\* stopGrid failed with a structured backend error, which is on display
C15_Witness ==
  /\ ev.kind = "stopGrid" /\ ev.fn = "stop" /\ ev.resp.net = "notok"
  /\ ev.resp.detail /\ error = DetailMessage /\ operationInProgress = ""

\* C16: when the displayed error is one that a failed status fetch produced
\* (only status fetches produce a message naming the grid status), a status
\* fetch that succeeds, the first one or one the timer issued, leaves error
\* null.
C16_PollSuccessClearsPollError ==
  [][(/\ includesGridStatus(error)
      /\ ev'.kind \in {"fetchGridStatus", "fetchInitialData"}
      /\ ev'.fn = "status" /\ fetchGridStatus_ok(ev'.resp))
     => error' = NullStr]_vars

\* C17: when the status fetch of the initial load fails (rejected, non-2xx or
\* unparseable), an error message is on display once the load has returned.
C17_InitialFailureShown ==
  (/\ ev.kind = "fetchInitialData" /\ ev.fn = "status"
   /\ ~fetchGridStatus_ok(ev.resp))
  => error # NullStr

\* requests to the status endpoint that are in flight
StatusRequests == Len(polls) + (IF initialLoad.stage = "status" THEN 1 ELSE 0)

\* C18: the step that activates the component starts the one initial load
\* (none was in flight, none ever starts again) and arms the timer; every
\* firing of the timer issues one request to the status endpoint and starts
\* no other call; and until the cleanup runs the timer can always fire again
\* (up to MaxPolls polls in flight).
C18_LoadOnceThenStatusTicks ==
  /\ [][/\ (~mounted /\ mounted') =>
             /\ initialLoad.stage = "none" /\ initialLoad'.stage # "none"
             /\ statusInterval' /\ polls' = polls
        /\ (mounted /\ initialLoad'.stage # initialLoad.stage) =>
             ev'.kind = "fetchInitialData" /\ ev'.fn # "mount"
        /\ ev'.fn = "tick" =>
             /\ StatusRequests' = StatusRequests + 1
             /\ polls' = Append(polls, FALSE)
             /\ initialLoad' = initialLoad /\ ops' = ops]_vars
  /\ []((mounted /\ ~unmounted /\ Len(polls) < MaxPolls) => ENABLED Tick)
\* the timer fired while the poll of an earlier firing was still in flight,
\* after the initial load had returned
C18_Witness ==
  /\ ev.fn = "tick" /\ Len(polls) = 2 /\ initialLoad.stage = "done"
  /\ statusInterval

\* C19: once the cleanup has run, no step issues a request to the status
\* endpoint.
C19_NoStatusRequestAfterCleanup ==
  [][unmounted => StatusRequests' <= StatusRequests]_vars

\* C20: once the cleanup has run, isRunning, gridStatus, balances, openOrders
\* and error keep their values: what a call in flight at that moment returns
\* is not written to state.
C20_NoWriteAfterCleanup ==
  [][unmounted =>
       <<isRunning, gridStatus, balances, openOrders, error>>'
         = <<isRunning, gridStatus, balances, openOrders, error>>]_vars

\* C21: isLoading and loadingMessage change only in steps of the initial load
\* (its start at mount and the continuations of fetchInitialData); no timer
\* poll and no operation, with its order refresh, changes either.
C21_LoadingOnlyInInitialLoad ==
  [][<<isLoading, loadingMessage>>' # <<isLoading, loadingMessage>>
       => ev'.kind = "fetchInitialData"]_vars

\* the fixed message an operation shows when the backend names no detail
Fallback(k) ==
  CASE k = "createGrid" -> "Failed to create grid"
    [] k = "stopGrid" -> "Failed to stop grid"
    [] k = "cancelGrid" -> "Failed to cancel grid"

\* C26: after a mutating call answered with a non-2xx status and a JSON body,
\* error is the body's detail when it has one and the operation's fallback
\* message when it has none.
C26_DetailShown ==
  (/\ ev.kind \in OpKinds /\ ev.fn \in {"create", "stop", "cancel"}
   /\ ev.resp.net = "notok" /\ ev.resp.json)
  => error = (IF ev.resp.detail THEN DetailMessage ELSE Fallback(ev.kind))

\* C27: while isRunning is true and a snapshot has been adopted, balances and
\* openOrders are the balance and the open_orders embedded in that snapshot
\* (gridStatus holds the snapshot adopted last).
C27_SnapshotOwnsOrdersAndBalance ==
  (isRunning /\ gridStatus # 0 /\ Embeds(gridStatus))
  => /\ balances = snap_balance(gridStatus)
     /\ openOrders = snap_open_orders(gridStatus)

\* C28: gridStatus becomes present only in a step that reconciles a create or
\* status response reporting running; it becomes absent only in a step that
\* applies a status response reporting not running or a successful stop; and
\* after a successful cancel call gridStatus is absent.
C28_StatusLifecycle ==
  /\ [][/\ (gridStatus = 0 /\ gridStatus' # 0) =>
             /\ ev'.fn \in {"status", "create"}
             /\ ev'.resp.net = "ok" /\ ev'.resp.json /\ ev'.resp.running
        /\ (gridStatus # 0 /\ gridStatus' = 0) =>
             \/ /\ ev'.fn = "status" /\ ev'.resp.net = "ok" /\ ev'.resp.json
                /\ ~ev'.resp.running
             \/ ev'.fn = "stop" /\ ev'.resp.net = "ok"]_vars
  /\ []((ev.kind = "cancelGrid" /\ ev.fn = "cancel" /\ ev.resp.net = "ok")
          => gridStatus = 0)

\* C29: no guard orders a stop response and a status response: the step that
\* applies a successful stop leaves isRunning false and gridStatus absent, and
\* the step that applies a successful status response leaves isRunning and
\* gridStatus as that response alone dictates, whether the status request was
\* issued before or after the stop and whatever was applied before.
C29_LastAppliedWins ==
  /\ (ev.fn = "stop" /\ ev.resp.net = "ok" /\ (rev = "A" => ev.resp.json))
       => (~isRunning /\ gridStatus = 0)
  /\ (ev.fn = "status" /\ ev.resp.net = "ok" /\ ev.resp.json)
       => <<isRunning, gridStatus>> =
            IF rev = "A"
            THEN IF ev.resp.running /\ ev.resp.snap # 0
                 THEN <<TRUE, ev.resp.snap>> ELSE <<FALSE, 0>>
            ELSE IF ev.resp.snap # 0
                 THEN <<ev.resp.running, ev.resp.snap>> ELSE <<FALSE, 0>>
\* a status poll requested before the stop response arrived was applied after
\* the successful stop and put the run back, while another operation held the
\* lock
C29_Witness ==
  /\ afterStop /\ ev.kind = "fetchGridStatus" /\ ev.fn = "status"
  /\ isRunning /\ gridStatus = 1 /\ operationInProgress # ""

\* C30: when the response of a later-issued poll has been applied with
\* success while an earlier-issued poll was still in flight, the successful
\* response of that earlier poll, arriving next, does not replace what the
\* later one set: isRunning, gridStatus, balances and openOrders stay those of
\* the later-issued poll.
C30_LaterIssuedPollWins ==
  [][(/\ ev.kind = "fetchGridStatus" /\ ev.fn = "status"
      /\ fetchGridStatus_ok(ev.resp) /\ ev.older > 0
      /\ ev'.kind = "fetchGridStatus" /\ ev'.fn = "status"
      /\ fetchGridStatus_ok(ev'.resp) /\ ev'.older < ev.older)
     => <<isRunning, gridStatus, balances, openOrders>>'
          = <<isRunning, gridStatus, balances, openOrders>>]_vars


\* ------------------------------------------------ claims on the order table
\* C22: handleSort(key) on the active key flips the direction, on another key
\* sets that key with direction asc; from the initial configuration
\* (price, desc) handleSort('price') gives asc, and once more gives desc.
C22_HandleSortToggles ==
  [][ev'.fn = "handleSort" =>
       /\ sortConfig'.key = ev'.kind
       /\ sortConfig'.direction =
            (IF sortConfig.key # ev'.kind THEN "asc"
             ELSE IF sortConfig.direction = "asc" THEN "desc" ELSE "asc")
       /\ (sortConfig = [key |-> "price", direction |-> "desc"] /\ ev'.kind = "price"
             => sortConfig' = [key |-> "price", direction |-> "asc"])
       /\ (sortConfig = [key |-> "price", direction |-> "asc"] /\ ev'.kind = "price"
             => sortConfig' = [key |-> "price", direction |-> "desc"])]_vars
C22_Witness ==
  /\ ev.fn = "handleSort" /\ ev.kind = "price"
  /\ sortConfig = [key |-> "price", direction |-> "desc"]

\* the orders that pass the two filters, in the order of openOrders
Matching ==
  SelectSeq(openOrders.items,
            LAMBDA o : /\ filterSide = "ALL" \/ order_side(o) = filterSide
                       /\ filterStatus = "ALL" \/ order_state(o) = filterStatus)
\* a before b, or level with it, under the active key and direction: numbers
\* for price and quantities, text for side and state
InOrder(a, b) ==
  LET num(o) == parseFloat(Field(o, sortConfig.key))
      txt(o) == CHOOSE i \in DOMAIN Collation : Collation[i] = Field(o, sortConfig.key)
      val(o) == IF sortConfig.key \in {"price", "origQty", "executedQty"}
                THEN num(o) ELSE txt(o)
  IN  IF sortConfig.direction = "asc" THEN val(a) <= val(b) ELSE val(a) >= val(b)
\* C23: the displayed page is the matching orders (side filter, status filter),
\* sorted by the active key in the active direction, cut to the positions
\* (currentPage-1)*itemsPerPage .. currentPage*itemsPerPage; prices 10, 5, 8
\* sorted by price ascending are shown as 5, 8, 10.
C23_DisplayedPage ==
  LET sorted == sortAndFilterOrders(openOrders.items)
      first == (currentPage - 1) * itemsPerPage + 1
      last == IF currentPage * itemsPerPage < Len(sorted)
              THEN currentPage * itemsPerPage ELSE Len(sorted)
  IN  /\ Len(sorted) = Len(Matching)
      /\ {sorted[i] : i \in DOMAIN sorted} = {Matching[i] : i \in DOMAIN Matching}
      /\ \A i \in 1..(Len(sorted) - 1) : InOrder(sorted[i], sorted[i + 1])
      /\ paginatedOrders = [i \in 1..(IF last >= first THEN last - first + 1 ELSE 0)
                              |-> sorted[first + i - 1]]
      /\ (/\ openOrders.items = <<1, 2, 3>>
          /\ sortConfig = [key |-> "price", direction |-> "asc"]
          /\ filterSide = "ALL" /\ filterStatus = "ALL")
           => [i \in DOMAIN paginatedOrders |-> order_price(paginatedOrders[i])]
                = <<"5", "8", "10">>
C23_Witness ==
  /\ Len(openOrders.items) = MaxOrders
  /\ sortConfig = [key |-> "price", direction |-> "asc"]
  /\ filterSide = "BUY" /\ filterStatus = "NEW"
  /\ currentPage = 2
  /\ Len(paginatedOrders) > 0

\* number of pages of the filtered order list
pageCount == (Len(Matching) + itemsPerPage - 1) \div itemsPerPage
\* C24: currentPage always lies in [1, max(1, pageCount)], pageCount being
\* the number of pages of the filtered order list.
C24_PageClamped ==
  /\ currentPage >= 1
  /\ currentPage <= (IF pageCount > 1 THEN pageCount ELSE 1)

\* C25: any change of the side filter or of the status filter sets
\* currentPage to 1.
C25_FilterChangeResetsPage ==
  [][(filterSide' # filterSide \/ filterStatus' # filterStatus)
       => currentPage' = 1]_vars
C25_Witness ==
  /\ ev.fn = "filter" /\ ev.kind = "side"
  /\ filterSide = "BUY"
  /\ totalPages >= 3
  /\ currentPage = 1


\* C31: an empty order list gives an empty displayed page and a page count of
\* 0, and currentPage stays 1.
C31_EmptyList ==
  /\ [](Len(openOrders.items) = 0 =>
          /\ paginatedOrders = <<>>
          /\ totalPages = 0
          /\ currentPage = 1)
  /\ [][Len(openOrders.items) = 0 /\ Len(openOrders'.items) = 0
          => currentPage' = 1]_vars
\* the initial load delivered a running grid with no open order
C31_Witness ==
  /\ gridStatus = 3 /\ isRunning
  /\ Len(openOrders.items) = 0
  /\ ev.fn = "status"
  /\ paginatedOrders = <<>>

Sign(n) == IF n > 0 THEN 1 ELSE IF n < 0 THEN -1 ELSE 0
Position(seq, x) == CHOOSE i \in DOMAIN seq : seq[i] = x
\* C32: price, origQty and executedQty are ordered by the numeric value of
\* the decimal string (price "10" after price "9" ascending), side and state
\* lexicographically; descending is the exact reverse comparison.
C32_NumericOrLexical ==
  LET orders == {openOrders.items[i] : i \in DOMAIN openOrders.items}
      asc(k) == [key |-> k, direction |-> "asc"]
      desc(k) == [key |-> k, direction |-> "desc"]
      rank(str) == CHOOSE i \in DOMAIN Collation : Collation[i] = str
      sorted == sortAndFilterOrders(openOrders.items)
  IN  /\ \A a, b \in orders :
           /\ \A k \in {"price", "origQty", "executedQty"} :
                Sign(compareOrders(a, b, asc(k)))
                  = Sign(parseFloat(Field(a, k)) - parseFloat(Field(b, k)))
           /\ \A k \in {"side", "state"} :
                Sign(compareOrders(a, b, asc(k)))
                  = Sign(rank(Field(a, k)) - rank(Field(b, k)))
           /\ \A k \in SortKeys :
                compareOrders(a, b, desc(k)) = compareOrders(b, a, asc(k))
           /\ order_price(a) = "9" /\ order_price(b) = "10"
                => compareOrders(a, b, asc("price")) < 0
      /\ \A i, j \in DOMAIN sorted :
           /\ sortConfig.key = "price"
           /\ order_price(sorted[i]) = "9" /\ order_price(sorted[j]) = "10"
           => IF sortConfig.direction = "asc" THEN i < j ELSE j < i
\* the table is sorted by price ascending and shows an order priced "9"
\* ahead of one priced "10", which text order would put first
C32_Witness ==
  LET sorted == sortAndFilterOrders(openOrders.items)
  IN  /\ sortConfig = [key |-> "price", direction |-> "asc"]
      /\ ev.fn = "handleSort"
      /\ \E i, j \in DOMAIN sorted :
           /\ i < j
           /\ order_price(sorted[i]) = "9" /\ order_price(sorted[j]) = "10"

\* C33: the sort is stable: orders with equal values of the active key are
\* displayed in their relative order in openOrders, in both directions.
C33_StableSort ==
  LET sorted == sortAndFilterOrders(openOrders.items)
  IN  \A i, j \in DOMAIN sorted :
        (i < j /\ InOrder(sorted[i], sorted[j]) /\ InOrder(sorted[j], sorted[i]))
          => Position(openOrders.items, sorted[i]) < Position(openOrders.items, sorted[j])
\* sorted by price descending, the orders priced "5" and "5.0" (equal
\* values) follow each other as in openOrders
C33_Witness ==
  LET sorted == sortAndFilterOrders(openOrders.items)
  IN  /\ sortConfig = [key |-> "price", direction |-> "desc"]
      /\ ev.fn = "handleSort"
      /\ \E i \in 1..(Len(sorted) - 1) :
           /\ order_price(sorted[i]) = "5" /\ order_price(sorted[i + 1]) = "5.0"
           /\ sorted[i] < sorted[i + 1]


\* the state slots in which t differs from s
Written(s, t) == {f \in DOMAIN s : s[f] # t[f]}
InInitialLoad == rev = "A" /\ initialLoad.stage \notin {"none", "done"}
\* C34 (as stated): within the initial load the balance fetch modifies only
\* balances, the orders fetch only openOrders, the market-info fetch only
\* marketInfo and currentPrice, on success or on failure.
C34_SubFetchFrames ==
  InInitialLoad =>
    /\ \A r \in BalanceResponses :
         Written(State, fetchBalances_call(State, r)) \subseteq {"balances"}
    /\ \A r \in OrdersResponses :
         Written(State, fetchOpenOrders_call(State, r)) \subseteq {"openOrders"}
    /\ \A r \in MarketInfoResponses, p \in MarketPriceResponses :
         Written(State, fetchMarketInfo_call(State, r, p))
           \subseteq {"marketInfo", "currentPrice"}
\* C34 (amended): within the initial load the balance fetch writes balances,
\* the orders fetch openOrders, the market-info fetch marketInfo and
\* currentPrice, and none writes another's data; besides, each of the three
\* sets loadingMessage when it starts and the market-info fetch sets error
\* when it fails.
C34_DataSlotsDisjoint ==
  /\ [](InInitialLoad =>
          /\ \A r \in BalanceResponses :
               LET t == fetchBalances_call(State, r)
               IN  /\ Written(State, t) \subseteq {"balances", "loadingMessage"}
                   /\ t.loadingMessage = "Fetching balances..."
          /\ \A r \in OrdersResponses :
               LET t == fetchOpenOrders_call(State, r)
               IN  /\ Written(State, t) \subseteq {"openOrders", "loadingMessage"}
                   /\ t.loadingMessage = "Fetching orders..."
          /\ \A r \in MarketInfoResponses, p \in MarketPriceResponses :
               LET t == fetchMarketInfo_call(State, r, p)
                   failed == ~fetchMarketInfo_ok(r) \/ ~(p.net = "ok" /\ p.json)
               IN  /\ Written(State, t) \subseteq
                         {"marketInfo", "currentPrice", "loadingMessage"}
                           \cup (IF failed THEN {"error"} ELSE {})
                   /\ t.loadingMessage = "Fetching market info..."
                   /\ failed => t.error # NullStr)
  /\ [][(rev = "A" /\ ev'.kind = "fetchInitialData") =>
          /\ ev'.fn = "balance" =>
               Written(State, State') \subseteq {"balances", "loadingMessage"}
          /\ ev'.fn = "orders" =>
               Written(State, State') \subseteq {"openOrders", "loadingMessage"}
          /\ ev'.fn \in {"market", "price"} =>
               Written(State, State') \subseteq
                 {"marketInfo", "currentPrice", "loadingMessage", "error"}]_vars
\* the market-info read of the initial load failed after the balance and the
\* orders reads succeeded: error is set, balances and openOrders are kept
C34_Witness ==
  /\ rev = "A"
  /\ ev.kind = "fetchInitialData" /\ ev.fn = "market" /\ ev.resp.net = "notok"
  /\ error # NullStr
  /\ balances = 1
  /\ openOrders = Arr(<<3>>)
  /\ marketInfo = 0


\* C35: a failed stopGrid (non-2xx response or transport failure) leaves
\* isRunning, gridStatus, balances and openOrders unchanged; it only sets the
\* error message and returns operationInProgress to idle.
C35_FailedStopKeepsState ==
  [][(/\ ev'.kind = "stopGrid" /\ ev'.fn = "stop"
      /\ ev'.resp.net \in {"reject", "notok"}) =>
       /\ <<isRunning, gridStatus, balances, openOrders>>'
            = <<isRunning, gridStatus, balances, openOrders>>
       /\ Written(State, State') \subseteq {"error", "operationInProgress"}
       /\ error' # NullStr
       /\ operationInProgress' = ""]_vars
\* the stop call of a running grid was rejected by the transport
C35_Witness ==
  /\ ev.kind = "stopGrid" /\ ev.fn = "stop" /\ ev.resp.net = "reject"
  /\ isRunning /\ gridStatus # 0
  /\ error = NetworkMessage
  /\ operationInProgress = ""

\* C36: createGrid is triggered only in a state where isRunning is false,
\* stopGrid only in a state where isRunning is true.
C36_TriggersFollowRunning ==
  [][ev'.fn = "begin" =>
       /\ ev'.kind = "createGrid" => ~isRunning
       /\ ev'.kind = "stopGrid" => isRunning]_vars
\* a grid that a status response reported running is being stopped
C36_Witness ==
  /\ ev.fn = "begin" /\ ev.kind = "stopGrid"
  /\ isRunning /\ operationInProgress = "stop"


\* C37: whenever operationInProgress is not idle it eventually returns to
\* idle, provided every network call the operation issued settles; the lock
\* is released by nothing but the return of the operation that holds it, so
\* a call that never settles keeps it held.
C37_LockEventuallyIdle ==
  /\ (operationInProgress # "") ~> (operationInProgress = "")
  /\ [][(operationInProgress # "" /\ operationInProgress' = "")
          => ev'.kind \in OpKinds /\ ev'.done]_vars
  /\ [](operationInProgress # "" =>
          \E i \in DOMAIN ops : LockName(ops[i].kind) = operationInProgress)
\* createGrid returned, after its order refresh, and released the lock
C37_Witness ==
  /\ ev.kind = "createGrid" /\ ev.fn = "orders" /\ ev.done
  /\ operationInProgress = ""


\* C38: a failed status poll never stops the polling: whatever failures came
\* before, the timer can fire until deactivation, every firing issues a status
\* poll, and a later successful poll is reconciled as usual.
C38_PollingSurvivesFailure ==
  /\ (statusInterval /\ Len(polls) < MaxPolls) => ENABLED Tick
  /\ (ev.fn = "tick") => (Len(polls) > 0 /\ StatusRequests > 0)
  /\ (ev.kind = "fetchGridStatus" /\ ev.fn = "status" /\ fetchGridStatus_ok(ev.resp)) =>
       IF ev.resp.snap # 0 /\ (rev = "B" \/ ev.resp.running)
       THEN /\ isRunning = ev.resp.running /\ gridStatus = ev.resp.snap
            /\ (rev = "A" /\ ev.resp.snap = 1) =>
                 /\ balances = snap_balance(1)
                 /\ openOrders = snap_open_orders(1)
       ELSE ~isRunning /\ gridStatus = 0
\* a status fetch failed on an unparseable body (its message is still on
\* display), the timer went on, and a later poll that reports a running grid
\* was adopted
C38_Witness ==
  /\ rev = "A" /\ statusInterval
  /\ error = "Failed to fetch grid status. The connection to the server might be lost."
  /\ ev.kind = "fetchGridStatus" /\ ev.fn = "status" /\ ev.resp.running
  /\ isRunning /\ gridStatus = 1 /\ balances = snap_balance(1)

====
